---- MODULE Spec2Model ----
(***************************************************************************)
(* A model of scripts/download_unity_windows_mono.py: the pipeline that    *)
(* resolves, downloads, unpacks and repackages the Unity Windows Mono      *)
(* support package.                                                        *)
(*                                                                         *)
(* Text is modelled as a sequence of symbols.  A symbol is one character   *)
(* ("f", "1", ".", "/", the backslash, the newline "NL") or one of the     *)
(* fixed literals of the program taken as a unit ("HOST", "FILE", "pkg",   *)
(* "WHATSNEW", "#installs", ".zip").                                       *)
(***************************************************************************)
EXTENDS Integers, Sequences, FiniteSets, TLC

VARIABLES
    pc,             \* position of the run
    version,        \* args.version
    norm,           \* successive results of sanitize_version (SpecSanitize)
    output,         \* main: the output path
    existed,        \* whether a file was at the output path when main began
    outFile,        \* what is stored at the output path
    opened,         \* whether make_zip has opened the archive for writing
    workdir,        \* "none" | "exists" | "removed": the temporary directory
    web,            \* the two answers of the release pages
    requests,       \* the page URLs requested, in order
    installer_url,  \* result of fetch_installer_url
    sevenzip,       \* the archiver environment of this run
    calls,          \* the archiver invocations made, in order
    scanned,        \* whether pkg/ has been globbed for Payload~*
    tree,           \* the payload tree found by rglob("Managed"), in traversal order
    managed_dir,    \* index in tree of the directory locate_managed returned (0: none)
    files,          \* the regular files under the managed directory
    exc,            \* the exception in flight
    exitStatus,     \* the process exit status (-1: still running)
    diag,           \* the tagged one-line diagnostics printed by __main__
    traceback       \* whether the interpreter ended with an unhandled exception

vars == <<pc, version, norm, output, existed, outFile, opened, workdir, web,
          requests, installer_url, sevenzip, calls, scanned, tree, managed_dir, files,
          exc, exitStatus, diag, traceback>>

(***************************************************************************)
(* Bounds of the model.                                                    *)
(***************************************************************************)
MaxLen == 4        \* longest version string of SpecSanitize
MaxEntries == 3    \* most rglob("Managed") hits in a payload tree
MaxFiles == 3      \* most regular files under the managed directory
MaxPayloads == 2   \* most Payload~* entries in pkg/

(***************************************************************************)
(* Characters.                                                             *)
(***************************************************************************)
Lower == {"a", "f"}
Upper == {"F"}
Digits == {"1", "9"}
Alphabet == Lower \cup Upper \cup Digits \cup {"."}

IsLower(c) == c \in Lower
IsDigit(c) == c \in Digits

Strings(n) == UNION {[1..k -> Alphabet] : k \in 0..n}

(***************************************************************************)
(* sanitize_version: re.sub(r"[a-z]\d+$", "", version).  Without a newline *)
(* in the text "$" is the end of the string, so the pattern has at most    *)
(* one match: a lowercase letter followed by digits up to the end.  The    *)
(* match is removed; without a match the string is returned as it is.      *)
(***************************************************************************)
SuffixStarts(v) ==
    {i \in 1..(Len(v) - 1) :
        IsLower(v[i]) /\ \A j \in (i + 1)..Len(v) : IsDigit(v[j])}

\* A variant that strips a single trailing digit, as r"\d$" would.
sanitize_version_one_digit(v) ==
    IF Len(v) >= 1 /\ IsDigit(v[Len(v)])
    THEN SubSeq(v, 1, Len(v) - 1)
    ELSE v

sanitize_version(v) ==
    IF SuffixStarts(v) = {}
    THEN v
    ELSE SubSeq(v, 1, (CHOOSE i \in SuffixStarts(v) : TRUE) - 1)

(***************************************************************************)
(* Exceptions, responses and the neutral values of the state.              *)
(***************************************************************************)
NoExc == [kind |-> "none", msg |-> "", code |-> 0]
DownloadError(m) == [kind |-> "DownloadError", msg |-> m, code |-> 0]
Uncaught(k) == [kind |-> k, msg |-> "", code |-> 0]

Response(st, body) == [status |-> st, body |-> body]
NoResponse == Response(0, <<>>)
NoWeb == [primary |-> NoResponse, fallback |-> NoResponse]

(***************************************************************************)
(* The page URL of a version: UNITY_WHATS_NEW_URL, the version, the anchor.*)
(***************************************************************************)
PageUrl(v) == <<"WHATSNEW">> \o v \o <<"#installs">>

(***************************************************************************)
(* The link pattern of fetch_installer_url, compiled with re.IGNORECASE:   *)
(*   HOST [0-9a-f]+ / .+? FILE <version> \\ . pkg                          *)
(* In the raw f-string the text "\\.pkg" is two backslashes, a dot and     *)
(* pkg: the regular expression reads it as an escaped backslash followed   *)
(* by "any character" and the letters pkg.                                 *)
(***************************************************************************)
Backslash == "\\"
Newline == "NL"
Fold(c) == IF c = "F" THEN "f" ELSE c
IsHex(c) == Fold(c) \in {"a", "f", "1", "9"}
\* the symbols that are one character long
SingleChars == Alphabet \cup {"/", Backslash, Newline, "M"}
\* what "." matches: one character other than the newline
IsDot(c) == c \in SingleChars /\ c # Newline

EqFold(page, g, v) ==
    /\ g + Len(v) <= Len(page)
    /\ \A k \in 1..Len(v) : Fold(page[g + k]) = Fold(v[k])

\* The tail of the pattern after the version, read at position t of page.
TailMatches(page, t) ==
    /\ t + 2 <= Len(page)
    /\ page[t] = Backslash
    /\ IsDot(page[t + 1])
    /\ page[t + 2] = "pkg"

\* Whether the pattern matches from the HOST at s up to the FILE at g:
\* hexadecimal digits up to a slash at h + 1, then at least one character,
\* none of them a newline.
HeadMatches(page, s, g) ==
    /\ page[s] = "HOST"
    /\ page[g] = "FILE"
    /\ \E h \in (s + 1)..(g - 3) :
          /\ \A j \in (s + 1)..h : IsHex(page[j])
          /\ page[h + 1] = "/"
          /\ \A j \in (h + 2)..(g - 1) : page[j] # Newline

\* The ends of the matches of the pattern that start at position s.
MatchEnds(page, v, s) ==
    {g + Len(v) + 3 :
        g \in {x \in (s + 3)..Len(page) :
                  /\ HeadMatches(page, s, x)
                  /\ EqFold(page, x, v)
                  /\ TailMatches(page, x + Len(v) + 1)}}

MatchStarts(page, v) == {s \in 1..Len(page) : MatchEnds(page, v, s) # {}}

Least(S) == CHOOSE x \in S : \A y \in S : x <= y

\* pattern.search(html): the leftmost start, and from it the shortest ".+?".
\* The empty sequence stands for "no match".
PatternSearch(page, v) ==
    IF MatchStarts(page, v) = {}
    THEN <<>>
    ELSE LET s == Least(MatchStarts(page, v))
         IN  SubSeq(page, s, Least(MatchEnds(page, v, s)))

(***************************************************************************)
(* fetch_installer_url.  w.primary and w.fallback are what the two page    *)
(* URLs answer: status 200 with a body, an HTTP error status (404, 500),   *)
(* or status 0 for a failure below HTTP (urllib.error.URLError).           *)
(* The result is the exception raised (or none), the URL returned and the  *)
(* requests made.                                                          *)
(***************************************************************************)
FetchResult(e, u, r) == [exc |-> e, url |-> u, requests |-> r]

SearchPage(v, html, reqs) ==
    IF PatternSearch(html, v) = <<>>
    THEN FetchResult(DownloadError("link_not_found"), <<>>, reqs)
    ELSE FetchResult(NoExc, PatternSearch(html, v), reqs)

HttpFailure(st) == IF st = 0 THEN Uncaught("URLError") ELSE Uncaught("HTTPError")

fetch_installer_url(v, w) ==
    LET first == <<PageUrl(v)>>
        both == <<PageUrl(v), PageUrl(sanitize_version(v))>>
    IN  IF w.primary.status = 200
        THEN SearchPage(v, w.primary.body, first)
        ELSE IF w.primary.status = 404
        THEN IF w.fallback.status = 200
             THEN SearchPage(v, w.fallback.body, both)
             ELSE FetchResult(HttpFailure(w.fallback.status), <<>>, both)
        ELSE IF w.primary.status = 0
        THEN FetchResult(Uncaught("URLError"), <<>>, first)
        ELSE FetchResult(DownloadError("fetch_failed"), <<>>, first)

(***************************************************************************)
(* run_7z and extract_payload.  The archiver environment env says whether  *)
(* the executable is found, the exit code of its n-th invocation, and what *)
(* pkg/ holds once the package is unpacked.  An entry of pkg/ is a name    *)
(* with its depth (1: directly in pkg/); the literal "Payload~" is one     *)
(* symbol of a name.                                                       *)
(***************************************************************************)
SevenZipError(code) == [kind |-> "DownloadError", msg |-> "7z_failed", code |-> code]

run_7z(env, n) ==
    IF ~env.found
    THEN DownloadError("7z_not_found")
    ELSE IF env.exits[n] # 0
    THEN SevenZipError(env.exits[n])
    ELSE NoExc

\* pkg_extract.glob("Payload~*"): the direct children whose name starts with
\* Payload~, in the order the directory lists them.
IsPayloadEntry(e) == e.depth = 1 /\ Len(e.name) >= 1 /\ e.name[1] = "Payload~"

PayloadFiles(listing) == SelectSeq(listing, IsPayloadEntry)

Call(src, dest) == [src |-> src, dest |-> dest]
PkgPath == <<"PKG">>

ExtractResult(e, c, sc) == [exc |-> e, calls |-> c, scanned |-> sc]

\* A variant of the loop that goes on to the next payload after a failure.
RECURSIVE ExtractLoopKeepGoing(_, _, _, _)
ExtractLoopKeepGoing(env, payloads, i, done) ==
    IF i > Len(payloads)
    THEN ExtractResult(NoExc, done, TRUE)
    ELSE ExtractLoopKeepGoing(env, payloads, i + 1,
                              Append(done, Call(payloads[i].name, "payload")))

\* for payload in payload_files: run_7z(...)
RECURSIVE ExtractLoop(_, _, _, _)
ExtractLoop(env, payloads, i, done) ==
    IF i > Len(payloads)
    THEN ExtractResult(NoExc, done, TRUE)
    ELSE LET now == Append(done, Call(payloads[i].name, "payload"))
         IN  IF run_7z(env, i + 1) # NoExc
             THEN ExtractResult(run_7z(env, i + 1), now, TRUE)
             ELSE ExtractLoop(env, payloads, i + 1, now)

extract_payload(env) ==
    LET first == <<Call(PkgPath, "pkg")>>
    IN  IF run_7z(env, 1) # NoExc
        THEN ExtractResult(run_7z(env, 1), first, FALSE)
        ELSE IF PayloadFiles(env.listing) = <<>>
        THEN ExtractResult(DownloadError("no_payload"), first, TRUE)
        ELSE ExtractLoop(env, PayloadFiles(env.listing), 1, first)

(***************************************************************************)
(* locate_managed.  t is what rglob meets in the payload tree, in its      *)
(* traversal order: each entry has its own name, the name of its parent    *)
(* directory and whether it is a directory.  The result names the entry    *)
(* returned by its index in t (0 with the not-found error).                *)
(***************************************************************************)
Candidates(t) == {i \in 1..Len(t) : t[i].name = "Managed" /\ t[i].is_dir}

UnderData(t) == {i \in Candidates(t) : t[i].parent = "Data"}

LocateResult(e, d) == [exc |-> e, dir |-> d]

\* A variant without the preference for the parent named Data.
locate_managed_first(t) ==
    IF Candidates(t) # {}
    THEN LocateResult(NoExc, Least(Candidates(t)))
    ELSE LocateResult(DownloadError("managed_not_found"), 0)

locate_managed(t) ==
    IF UnderData(t) # {}
    THEN LocateResult(NoExc, Least(UnderData(t)))
    ELSE IF Candidates(t) # {}
    THEN LocateResult(NoExc, Least(Candidates(t)))
    ELSE LocateResult(DownloadError("managed_not_found"), 0)

(***************************************************************************)
(* make_zip.  A file is its path below the managed directory, a sequence   *)
(* of components, and its bytes.  A component is the rank of its name      *)
(* among the names in use, so that comparing ranks compares names; paths   *)
(* compare as pathlib compares them, part by part.                         *)
(***************************************************************************)
BaseName(p) == p[Len(p)]

RECURSIVE PathLess(_, _)
PathLess(p, q) ==
    IF p = <<>> THEN q # <<>>
    ELSE IF q = <<>> THEN FALSE
    ELSE IF Head(p) # Head(q) THEN Head(p) < Head(q)
    ELSE PathLess(Tail(p), Tail(q))

FirstByPath(S) == CHOOSE f \in S : \A g \in S \ {f} : PathLess(f.path, g.path)

\* sorted(path for path in managed_dir.rglob("*") if path.is_file())
RECURSIVE SortedFiles(_)
SortedFiles(S) ==
    IF S = {} THEN <<>>
    ELSE <<FirstByPath(S)>> \o SortedFiles(S \ {FirstByPath(S)})

Entry(f) == [name |-> BaseName(f.path), data |-> f.data]

NoFile == [kind |-> "absent", finalized |-> FALSE, entries |-> <<>>]
OldFile == [kind |-> "old", finalized |-> FALSE, entries |-> <<>>]
\* Leaving the "with zipfile.ZipFile(...)" block closes the archive, which
\* writes its central directory, also when the block is left by an exception.
ClosedZip(entries) == [kind |-> "zip", finalized |-> TRUE, entries |-> entries]

ZipResult(e, o, f) == [exc |-> e, opened |-> o, file |-> f]

Names(entries) == {entries[i].name : i \in 1..Len(entries)}

\* A variant that names the entries by the first component of the path.
RECURSIVE ZipLoopFirstPart(_, _, _)
ZipLoopFirstPart(fs, i, written) ==
    IF i > Len(fs)
    THEN ZipResult(NoExc, TRUE, ClosedZip(written))
    ELSE IF BaseName(fs[i].path) \in Names(written)
    THEN ZipResult(DownloadError("duplicate"), TRUE, ClosedZip(written))
    ELSE ZipLoopFirstPart(fs, i + 1,
             Append(written, [name |-> Head(fs[i].path), data |-> fs[i].data]))

\* for file_path in files: ... zf.write(file_path, arcname=name)
\* seen_names is the set of the names written so far.
RECURSIVE ZipLoop(_, _, _)
ZipLoop(fs, i, written) ==
    IF i > Len(fs)
    THEN ZipResult(NoExc, TRUE, ClosedZip(written))
    ELSE IF BaseName(fs[i].path) \in Names(written)
    THEN ZipResult(DownloadError("duplicate"), TRUE, ClosedZip(written))
    ELSE ZipLoop(fs, i + 1, Append(written, Entry(fs[i])))

\* before is what the output path holds when make_zip is called.
make_zip(S, before) ==
    IF SortedFiles(S) = <<>>
    THEN ZipResult(DownloadError("empty"), FALSE, before)
    ELSE ZipLoop(SortedFiles(S), 1, <<>>)

(***************************************************************************)
(* The inputs of a run and the answers of its environment.                 *)
(***************************************************************************)
MaxLinks == 2      \* most download links in a release page

V1 == <<"9", ".", "9", "f", "1">>
V2 == <<"9", ".", "9">>
Versions == {V1, V2}

ToUpper(v) == [i \in 1..Len(v) |-> IF v[i] = "f" THEN "F" ELSE v[i]]

\* A download link as a release page may hold it.
Link(hash, segs, ver, tail) ==
    <<"HOST">> \o hash \o <<"/">> \o segs \o <<"FILE">> \o ver \o tail

DotPkg == <<".", "pkg">>
Hashes == {<<"a", "1">>, <<"M">>}
Segments == {<<>>, <<"M", "/">>, <<Newline, "/">>}
Tails == {DotPkg, <<Backslash, ".", "pkg">>, <<Backslash, Newline, "pkg">>}
LinkVersions(v) == {v, ToUpper(v), v \o <<"1">>}

Links(v) ==
    {Link(h, sg, lv, t) : h \in Hashes, sg \in Segments,
                          lv \in LinkVersions(v), t \in Tails}

RECURSIVE Pages(_, _)
Pages(v, n) ==
    IF n = 0 THEN {<<>>}
    ELSE Pages(v, n - 1) \cup {p \o l : p \in Pages(v, n - 1), l \in Links(v)}

WebsOver(pages) ==
    {[primary |-> Response(200, p), fallback |-> NoResponse] : p \in pages}
    \cup {[primary |-> Response(404, <<>>), fallback |-> Response(200, p)] :
             p \in pages}
    \cup {[primary |-> Response(404, <<>>), fallback |-> Response(st, <<>>)] :
             st \in {404, 500, 0}}
    \cup {[primary |-> Response(st, <<>>), fallback |-> NoResponse] :
             st \in {500, 0}}

WideWebs(v) == WebsOver(Pages(v, MaxLinks))

\* Three pages: a link as the download site writes it, a link as the
\* pattern reads it, and no link.
MainWebs(v) ==
    WebsOver({Link(<<"a", "1">>, <<"M", "/">>, v, DotPkg),
              Link(<<"a", "1">>, <<"M", "/">>, v, <<Backslash, ".", "pkg">>),
              <<"M">>})

\* Archiver environments.
ExitCodes == {0, 2}
PkgEntries ==
    {[name |-> <<"Payload~">>, depth |-> 1],
     [name |-> <<"Payload~", "1">>, depth |-> 1],
     [name |-> <<"Payload">>, depth |-> 1],
     [name |-> <<"M", "Payload~">>, depth |-> 1],
     [name |-> <<"Payload~">>, depth |-> 2]}

RECURSIVE Listings(_)
Listings(n) ==
    IF n = 0 THEN {<<>>}
    ELSE Listings(n - 1)
         \cup {Append(l, e) : l \in Listings(n - 1),
                              e \in PkgEntries}

Distinct(l) == \A i, j \in 1..Len(l) : l[i] = l[j] => i = j

SevenZipEnv(found, exits, listing) ==
    [found |-> found, exits |-> exits, listing |-> listing]
NoSevenZip == SevenZipEnv(TRUE, <<>>, <<>>)

WideEnvs ==
    {SevenZipEnv(fd, ex, l) :
        fd \in BOOLEAN,
        ex \in [1..(MaxPayloads + 2) -> ExitCodes],
        l \in {x \in Listings(MaxPayloads + 1) : Distinct(x)}}

MainEnvs ==
    {SevenZipEnv(fd, ex, l) :
        fd \in BOOLEAN,
        ex \in {<<0, 0, 0>>, <<0, 2, 0>>},
        l \in {<<>>,
               <<[name |-> <<"Payload~">>, depth |-> 1],
                 [name |-> <<"Payload">>, depth |-> 1]>>}}

\* Payload trees.
TreeEntries ==
    [name : {"Managed", "managed"}, parent : {"Data", "data", "Plugins"},
     is_dir : BOOLEAN]

RECURSIVE Trees(_)
Trees(n) ==
    IF n = 0 THEN {<<>>}
    ELSE Trees(n - 1) \cup {Append(t, e) : t \in Trees(n - 1), e \in TreeEntries}

WideTrees == Trees(MaxEntries)

MainTrees ==
    {<<>>,
     <<[name |-> "Managed", parent |-> "Plugins", is_dir |-> TRUE],
       [name |-> "Managed", parent |-> "Data", is_dir |-> TRUE]>>}

\* Files under the managed directory: directly in it or one directory down.
NameRanks == 1..3
Bytes == {"A", "B"}
Paths == {<<n>> : n \in NameRanks} \cup {<<d, n>> : d \in NameRanks, n \in NameRanks}
AllFiles == [path : Paths, data : Bytes]

IsProperPrefix(p, q) == Len(p) < Len(q) /\ SubSeq(q, 1, Len(p)) = p

\* What a directory can hold: one file per path, and no file where another
\* file's path needs a directory.
IsFileSet(S) ==
    \A f, g \in S :
        /\ f.path = g.path => f = g
        /\ ~IsProperPrefix(f.path, g.path)

RECURSIVE SetsUpTo(_)
SetsUpTo(n) ==
    IF n = 0 THEN {{}}
    ELSE SetsUpTo(n - 1) \cup {S \cup {f} : S \in SetsUpTo(n - 1), f \in AllFiles}

WideFileSets == {S \in SetsUpTo(MaxFiles) : IsFileSet(S)}

MainFileSets ==
    {{},
     {[path |-> <<1>>, data |-> "A"], [path |-> <<2>>, data |-> "B"]},
     {[path |-> <<1, 3>>, data |-> "A"], [path |-> <<2, 3>>, data |-> "B"]}}

(***************************************************************************)
(* The run.  main computes the output path, removes what is there, creates *)
(* the temporary directory and runs the stages inside the "with" block;    *)
(* an exception leaves the block at once.                                  *)
(***************************************************************************)
Blank ==
    /\ norm = <<>>
    /\ opened = FALSE
    /\ web = NoWeb
    /\ requests = <<>>
    /\ installer_url = <<>>
    /\ sevenzip = NoSevenZip
    /\ calls = <<>>
    /\ scanned = FALSE
    /\ tree = <<>>
    /\ managed_dir = 0
    /\ files = {}
    /\ exc = NoExc
    /\ exitStatus = -1
    /\ diag = <<>>
    /\ traceback = FALSE

ExplicitOutput == <<"/out.zip">>
DefaultOutput(v) == sanitize_version(v) \o <<".zip">>

Init ==
    /\ pc = "start"
    /\ version \in Versions
    /\ output \in {<<>>, ExplicitOutput}      \* args.output; <<>> is None
    /\ outFile \in {NoFile, OldFile}
    /\ existed = (outFile = OldFile)
    /\ workdir = "none"
    /\ Blank

\* A stage entered as main enters it: inside the "with" block, the output
\* path cleared.
AtStage(p) ==
    /\ pc = p
    /\ version \in Versions
    /\ output = DefaultOutput(version)
    /\ outFile = NoFile
    /\ existed = FALSE
    /\ workdir = "exists"
    /\ Blank

\* Where the run goes after a stage: on inside the block, or out of it.
After(e, next) == IF e = NoExc THEN next ELSE "with_exit"

\* A variant that leaves a file found at the output path where it is.
KeepOutput(f) == f

\* if output.exists(): output.unlink()
RemoveOutput(f) == NoFile

\* main, up to the "with" statement.
Start ==
    /\ pc = "start"
    /\ output' = IF output = <<>> THEN DefaultOutput(version) ELSE output
    /\ outFile' = RemoveOutput(outFile)
    /\ workdir' = "exists"
    /\ pc' = "fetch"
    /\ UNCHANGED <<existed, opened, version, norm, web, requests,
                   installer_url, sevenzip, calls, scanned, tree,
                   managed_dir, files, exc, exitStatus, diag, traceback>>

\* installer_url = fetch_installer_url(version)
Fetch(webs) ==
    /\ pc = "fetch"
    /\ \E w \in webs :
          /\ web' = w
          /\ requests' = fetch_installer_url(version, w).requests
          /\ installer_url' = fetch_installer_url(version, w).url
          /\ exc' = fetch_installer_url(version, w).exc
          /\ pc' = After(fetch_installer_url(version, w).exc, "download")
    /\ UNCHANGED <<existed, opened, version, norm, output, outFile, workdir,
                   sevenzip, calls, scanned, tree, managed_dir, files,
                   exitStatus, diag, traceback>>

FetchMain == Fetch(MainWebs(version))
FetchWide == Fetch(WideWebs(version))

\* download_file(installer_url, pkg_path): the request or the copy may fail.
Download ==
    /\ pc = "download"
    /\ \E e \in {NoExc, Uncaught("URLError"), Uncaught("OSError")} :
          /\ exc' = e
          /\ pc' = After(e, "extract")
    /\ UNCHANGED <<existed, opened, version, norm, output, outFile, workdir,
                   web, requests, installer_url, sevenzip, calls, scanned,
                   tree, managed_dir, files, exitStatus, diag, traceback>>

\* payload_dir = extract_payload(pkg_path, args.seven_zip, temp_root)
Extract(envs) ==
    /\ pc = "extract"
    /\ \E env \in envs :
          /\ sevenzip' = env
          /\ calls' = extract_payload(env).calls
          /\ scanned' = extract_payload(env).scanned
          /\ exc' = extract_payload(env).exc
          /\ pc' = After(extract_payload(env).exc, "locate")
    /\ UNCHANGED <<existed, opened, version, norm, output, outFile, workdir,
                   web, requests, installer_url, tree, managed_dir, files,
                   exitStatus, diag, traceback>>

ExtractMain == Extract(MainEnvs)
ExtractWide == Extract(WideEnvs)

\* managed_dir = locate_managed(payload_dir)
Locate(trees) ==
    /\ pc = "locate"
    /\ \E t \in trees :
          /\ tree' = t
          /\ managed_dir' = locate_managed(t).dir
          /\ exc' = locate_managed(t).exc
          /\ pc' = After(locate_managed(t).exc, "zip")
    /\ UNCHANGED <<existed, opened, version, norm, output, outFile, workdir,
                   web, requests, installer_url, sevenzip, calls, scanned,
                   files, exitStatus, diag, traceback>>

LocateMain == Locate(MainTrees)
LocateWide == Locate(WideTrees)

\* output.parent.mkdir(...); make_zip(managed_dir, output)
MakeZip(sets) ==
    /\ pc = "zip"
    /\ \E S \in sets :
          /\ files' = S
          /\ outFile' = make_zip(S, outFile).file
          /\ opened' = make_zip(S, outFile).opened
          /\ exc' = make_zip(S, outFile).exc
          /\ pc' = "with_exit"
    /\ UNCHANGED <<existed, version, norm, output, workdir, web, requests,
                   installer_url, sevenzip, calls, scanned, tree,
                   managed_dir, exitStatus, diag, traceback>>

MakeZipMain == MakeZip(MainFileSets)
MakeZipWide == MakeZip(WideFileSets)

\* A variant of the exit that cleans up only after a run without exception.
WorkdirAfterExitOnSuccess == IF exc = NoExc THEN "removed" ELSE workdir

\* TemporaryDirectory.__exit__: the directory is removed however the block
\* is left.
WorkdirAfterExit == "removed"

WithExit ==
    /\ pc = "with_exit"
    /\ workdir' = WorkdirAfterExit
    /\ pc' = IF exc = NoExc THEN "return" ELSE "raise"
    /\ UNCHANGED <<existed, opened, version, norm, output, outFile, web,
                   requests, installer_url, sevenzip, calls, scanned, tree,
                   managed_dir, files, exc, exitStatus, diag, traceback>>

\* return 0, and raise SystemExit(main())
Return ==
    /\ pc = "return"
    /\ exitStatus' = 0
    /\ pc' = "exited"
    /\ UNCHANGED <<existed, opened, version, norm, output, outFile, workdir,
                   web, requests, installer_url, sevenzip, calls, scanned,
                   tree, managed_dir, files, exc, diag, traceback>>

\* except DownloadError: the message is printed and the status is 1.  Any
\* other exception ends the interpreter with a traceback (and status 1).
Handler ==
    /\ pc = "raise"
    /\ diag' = IF exc.kind = "DownloadError" THEN Append(diag, exc.msg) ELSE diag
    /\ traceback' = (exc.kind # "DownloadError")
    /\ exitStatus' = 1
    /\ pc' = "exited"
    /\ UNCHANGED <<existed, opened, version, norm, output, outFile, workdir,
                   web, requests, installer_url, sevenzip, calls, scanned,
                   tree, managed_dir, files, exc>>

Next ==
    \/ Start
    \/ FetchMain
    \/ Download
    \/ ExtractMain
    \/ LocateMain
    \/ MakeZipMain
    \/ WithExit
    \/ Return
    \/ Handler

Spec == Init /\ [][Next]_vars

(***************************************************************************)
(* The stages on their own, over wider inputs.                             *)
(***************************************************************************)
\* sanitize_version applied to a version, and again to its result.
Sanitize ==
    /\ pc = "sanitize"
    /\ Len(norm) < 2
    /\ norm' = Append(norm, sanitize_version(IF norm = <<>> THEN version
                                              ELSE norm[Len(norm)]))
    /\ UNCHANGED <<existed, opened, pc, version, output, outFile, workdir,
                   web, requests, installer_url, sevenzip, calls, scanned,
                   tree, managed_dir, files, exc, exitStatus, diag, traceback>>

InitSanitize ==
    /\ pc = "sanitize"
    /\ version \in Strings(MaxLen)
    /\ output = <<>>
    /\ outFile = NoFile
    /\ existed = FALSE
    /\ workdir = "none"
    /\ Blank

SpecSanitize == InitSanitize /\ [][Sanitize]_vars

InitFetch == AtStage("fetch")
SpecFetch == InitFetch /\ [][FetchWide]_vars

InitExtract == AtStage("extract")
SpecExtract == InitExtract /\ [][ExtractWide]_vars

InitLocate == AtStage("locate")
SpecLocate == InitLocate /\ [][LocateWide]_vars

InitZip == AtStage("zip")
SpecZip == InitZip /\ [][MakeZipWide]_vars

(***************************************************************************)
(* Properties.                                                             *)
(***************************************************************************)
Left == pc \in {"return", "raise", "exited"}
\* make_zip has been called: locate_managed returned a directory and the
\* run is past the repackaging.
ZipRan == managed_dir # 0 /\ pc \in {"with_exit", "return", "raise", "exited"}
\* make_zip has been called and has opened the archive.
ZipRanAtStage == pc = "with_exit" /\ opened
ValidArchive(f) == f.kind = "zip" /\ f.finalized

\* C1: after make_zip failed with the duplicate-file-name error, no
\* finalized archive is at the output path, neither when make_zip is left
\* nor when main and the process are.
C1_NoArchiveAfterDuplicate ==
    (ZipRan /\ exc = DownloadError("duplicate")) => ~ValidArchive(outFile)

\* C2 as stated: applying sanitize_version to its own result changes
\* nothing, for every version string.
C2_Idempotent == Len(norm) = 2 => norm[2] = norm[1]

\* v ends with two letter+digits groups, one after the other ("1a2b3").
EndsWithTwoGroups(v) ==
    \E i, j \in 1..Len(v) :
        /\ i + 1 < j
        /\ j < Len(v)
        /\ IsLower(v[i])
        /\ IsLower(v[j])
        /\ \A k \in ((i + 1)..(j - 1)) \cup ((j + 1)..Len(v)) : IsDigit(v[k])

\* C2 amended: sanitize_version removes one trailing letter+digits group,
\* so a second application changes nothing exactly when the version does
\* not end with two such groups in a row.
C2_IdempotentUnlessTwoGroups ==
    Len(norm) = 2 => ((norm[2] = norm[1]) <=> ~EndsWithTwoGroups(version))

C2_Witness ==
    /\ Len(norm) = 2
    /\ norm[1] # version
    /\ norm[2] = norm[1]
    /\ \E i \in 1..Len(norm[1]) : IsLower(norm[1][i])

\* The links C3 speaks of: the download host, one or more path segments,
\* FILE, the version in any case, ".pkg".
IsUrlChar(c) == c \in Alphabet \cup {"M"}

TailDotPkg(page, t) ==
    /\ t + 1 <= Len(page)
    /\ page[t] = "."
    /\ page[t + 1] = "pkg"

SegmentsBetween(page, s, g) ==
    /\ s + 2 < g
    /\ page[g - 1] = "/"
    /\ page[s + 1] # "/"
    /\ \A j \in (s + 1)..(g - 1) : IsUrlChar(page[j]) \/ page[j] = "/"
    /\ \A j \in (s + 1)..(g - 2) : ~(page[j] = "/" /\ page[j + 1] = "/")

InstallerLinkEnds(page, v, s) ==
    {g + Len(v) + 2 :
        g \in {x \in (s + 1)..Len(page) :
                  /\ page[s] = "HOST"
                  /\ page[x] = "FILE"
                  /\ SegmentsBetween(page, s, x)
                  /\ EqFold(page, x, v)
                  /\ TailDotPkg(page, x + Len(v) + 1)}}

InstallerLinkStarts(page, v) ==
    {s \in 1..Len(page) : InstallerLinkEnds(page, v, s) # {}}

FirstInstallerLink(page, v) ==
    LET s == Least(InstallerLinkStarts(page, v))
    IN  SubSeq(page, s, Least(InstallerLinkEnds(page, v, s)))

FetchRan == requests # <<>>
GotPage ==
    \/ web.primary.status = 200
    \/ web.primary.status = 404 /\ web.fallback.status = 200
Html == IF web.primary.status = 200 THEN web.primary.body ELSE web.fallback.body

\* C3: when the fetched page holds an installer link for the version,
\* fetch_installer_url returns the first one as it stands in the page; the
\* link-not-found error is raised only for a page without such a link.
C3_ReturnsFirstInstallerLink ==
    (FetchRan /\ GotPage) =>
        /\ InstallerLinkStarts(Html, version) # {} =>
              /\ exc = NoExc
              /\ installer_url = FirstInstallerLink(Html, version)
        /\ exc = DownloadError("link_not_found") =>
              InstallerLinkStarts(Html, version) = {}

\* C4: a failed page fetch (an HTTP error status other than 404 on the
\* primary request, or any failure of the fallback request) ends the
\* process with one tagged diagnostic and status 1, not with a traceback.
PageFetchFailed ==
    /\ FetchRan
    /\ \/ web.primary.status = 500
       \/ web.primary.status = 404 /\ web.fallback.status # 200

C4_FetchFailureIsDownloadError ==
    (pc = "exited" /\ PageFetchFailed) =>
        /\ exc.kind = "DownloadError"
        /\ Len(diag) = 1
        /\ exitStatus = 1
        /\ ~traceback

\* C5: a version with a build suffix and no -o, the primary page missing,
\* the page of the sanitized version holding an installer link for the
\* version, and no stage after the link resolution failing: the page was
\* requested twice, primary then sanitized, the status is 0 and the archive
\* is at <sanitized version>.zip.
StageAfterFetchFailed ==
    exc # NoExc /\ exc.msg \notin {"fetch_failed", "link_not_found"}

C5_FallbackRunSucceeds ==
    ( /\ pc = "exited"
      /\ sanitize_version(version) # version
      /\ output # ExplicitOutput
      /\ web.primary.status = 404
      /\ web.fallback.status = 200
      /\ InstallerLinkStarts(web.fallback.body, version) # {}
      /\ ~StageAfterFetchFailed )
    =>
        /\ requests = <<PageUrl(version), PageUrl(sanitize_version(version))>>
        /\ exitStatus = 0
        /\ output = sanitize_version(version) \o <<".zip">>
        /\ ValidArchive(outFile)

\* C6: after a successful make_zip over files with distinct base names the
\* archive holds one entry per file and nothing else, named by the base
\* name, with the file's bytes, in the order of the files' paths.
DistinctBaseNames(S) ==
    \A f, g \in S : BaseName(f.path) = BaseName(g.path) => f = g
FileOf(S, e) == CHOOSE f \in S : BaseName(f.path) = e.name

C6_ArchiveIsFlatCopy ==
    (ZipRanAtStage /\ exc = NoExc /\ DistinctBaseNames(files)) =>
        /\ ValidArchive(outFile)
        /\ Len(outFile.entries) = Cardinality(files)
        /\ \A f \in files : \E i \in 1..Len(outFile.entries) :
              outFile.entries[i] = [name |-> BaseName(f.path), data |-> f.data]
        /\ \A i, j \in 1..Len(outFile.entries) :
              i < j => PathLess(FileOf(files, outFile.entries[i]).path,
                                FileOf(files, outFile.entries[j]).path)

C6_Witness ==
    /\ ZipRanAtStage
    /\ exc = NoExc
    /\ Cardinality(files) = 3
    /\ \E f \in files : Len(f.path) = 2
    /\ \E i, j \in 1..Len(outFile.entries) :
          i < j /\ outFile.entries[i].name > outFile.entries[j].name

\* C7: locate_managed returns the first directory named Managed whose
\* parent is named Data if there is one, else the first directory named
\* Managed, else it fails with the not-found error.
LocateRan == pc \in {"zip", "with_exit"}
ManagedDirs == {i \in 1..Len(tree) : tree[i].name = "Managed" /\ tree[i].is_dir}
ManagedUnderData == {i \in ManagedDirs : tree[i].parent = "Data"}

C7_LocatePolicy ==
    LocateRan =>
        IF ManagedUnderData # {}
        THEN /\ exc = NoExc
             /\ managed_dir \in ManagedUnderData
             /\ \A i \in ManagedUnderData : managed_dir <= i
        ELSE IF ManagedDirs # {}
        THEN /\ exc = NoExc
             /\ managed_dir \in ManagedDirs
             /\ \A i \in ManagedDirs : managed_dir <= i
        ELSE exc = DownloadError("managed_not_found") /\ managed_dir = 0

C7_Witness ==
    /\ LocateRan
    /\ \E i \in ManagedDirs : i < managed_dir /\ tree[i].parent = "Plugins"
    /\ \E i \in ManagedUnderData : managed_dir < i
    /\ tree[managed_dir].parent = "Data"

\* C8: once main is left, by return or by any exception, the temporary
\* directory is gone.
C8_WorkdirRemoved == Left => workdir = "removed"

C8_Witness ==
    /\ pc = "exited"
    /\ traceback
    /\ exc.kind = "OSError"
    /\ workdir = "removed"

\* C9: with no regular file under the located directory the run fails with
\* the empty-source error, the archive is never opened and nothing is at
\* the output path afterwards, whatever was there before the run.
C9_EmptyLeavesNoOutput ==
    (ZipRan /\ files = {}) =>
        /\ exc = DownloadError("empty")
        /\ ~opened
        /\ outFile = NoFile
        /\ pc = "exited" => (exitStatus = 1 /\ diag = <<"empty">>)

C9_Witness ==
    /\ pc = "exited"
    /\ ZipRan
    /\ files = {}
    /\ existed
    /\ outFile = NoFile

\* C10: extract_payload unpacks the package first, scans pkg/ only after
\* that succeeded, fails with no-payload and a single invocation when the
\* scan finds nothing, otherwise unpacks the payloads found one by one into
\* payload/, 1 + k invocations in all, and stops at the first invocation
\* that fails, with the error of that invocation.
ExtractRan == pc \in {"locate", "with_exit"}
Found == SelectSeq(sevenzip.listing, IsPayloadEntry)
InvocationError(n) ==
    IF ~sevenzip.found THEN DownloadError("7z_not_found")
    ELSE SevenZipError(sevenzip.exits[n])
InvocationFailed(n) == ~sevenzip.found \/ sevenzip.exits[n] # 0

C10_FailFastSequence ==
    ExtractRan =>
        /\ Len(calls) >= 1
        /\ Len(calls) <= 1 + Len(Found)
        /\ calls[1] = Call(PkgPath, "pkg")
        /\ \A n \in 2..Len(calls) : calls[n] = Call(Found[n - 1].name, "payload")
        /\ \A n \in 1..(Len(calls) - 1) : ~InvocationFailed(n)
        /\ scanned <=> ~InvocationFailed(1)
        /\ IF InvocationFailed(Len(calls))
           THEN exc = InvocationError(Len(calls))
           ELSE IF Len(Found) = 0
           THEN exc = DownloadError("no_payload")
           ELSE exc = NoExc /\ Len(calls) = 1 + Len(Found)

C10_Witness ==
    /\ ExtractRan
    /\ exc = SevenZipError(2)
    /\ Len(calls) = 2
    /\ Len(Found) >= 2
    /\ sevenzip.exits[3] = 0

====
